---- MODULE Spec2Model ----
(***************************************************************************)
(* Course prerequisite engine (eligibility_check.py): free-text            *)
(* prerequisite lines are parsed into AND-of-OR requirement groups, merged *)
(* into a store, turned into a dependency graph, ordered with Kahn's       *)
(* algorithm and evaluated against a completed-course set.                 *)
(*                                                                         *)
(* Text is a TLA+ string; the character at position i is SubSeq(s, i, i).  *)
(***************************************************************************)
EXTENDS Integers, Sequences, FiniteSets, TLC

(***************************************************************************)
(* Characters and the str / re primitives the parser is written with.      *)
(***************************************************************************)
LowerLetters == "abcdefghijklmnopqrstuvwxyz"
UpperLetters == "ABCDEFGHIJKLMNOPQRSTUVWXYZ"
DigitChars == "0123456789"

Ch(s, i) == SubSeq(s, i, i)
CharsOf(s) == {Ch(s, i) : i \in 1..Len(s)}

Lower == CharsOf(LowerLetters)
Upper == CharsOf(UpperLetters)
Digit == CharsOf(DigitChars)
\* \s of the re module, str.strip() with no argument
Whitespace == {" ", "\t", "\n", "\r"}
\* \w of the re module
WordChar == Lower \cup Upper \cup Digit \cup {"_"}

Min(a, b) == IF a < b THEN a ELSE b

\* the rest of s from position i on: s[i-1:]
From(s, i) == SubSeq(s, i, Len(s))

\* c in s, for a single character c
Contains(s, c) == \E i \in 1..Len(s) : Ch(s, i) = c

UpperChar(c) ==
    IF c \in Lower
    THEN Ch(UpperLetters, CHOOSE i \in 1..Len(LowerLetters) : Ch(LowerLetters, i) = c)
    ELSE c

\* str.upper()
RECURSIVE upper(_)
upper(s) == IF s = "" THEN "" ELSE UpperChar(Ch(s, 1)) \o upper(From(s, 2))

\* number of consecutive characters of class cs starting at position i
RECURSIVE Run(_, _, _)
Run(s, i, cs) ==
    IF i >= 1 /\ i <= Len(s) /\ Ch(s, i) \in cs THEN 1 + Run(s, i + 1, cs) ELSE 0

\* number of consecutive characters of class cs ending at position i
RECURSIVE RunBack(_, _, _)
RunBack(s, i, cs) ==
    IF i >= 1 /\ i <= Len(s) /\ Ch(s, i) \in cs THEN 1 + RunBack(s, i - 1, cs) ELSE 0

\* str.strip(chars)
strip_chars(s, cs) ==
    LET a == Run(s, 1, cs)
        b == RunBack(s, Len(s), cs)
    IN  IF a = Len(s) THEN "" ELSE SubSeq(s, a + 1, Len(s) - b)

\* str.strip()
strip(s) == strip_chars(s, Whitespace)

\* re.sub(r'\s+', ' ', s)
RECURSIVE sub_ws(_)
sub_ws(s) ==
    IF s = "" THEN ""
    ELSE IF Ch(s, 1) \in Whitespace
         THEN " " \o sub_ws(From(s, 1 + Run(s, 1, Whitespace)))
         ELSE Ch(s, 1) \o sub_ws(From(s, 2))

\* str.replace(old, new): every non-overlapping occurrence, left to right
RECURSIVE replace(_, _, _)
replace(s, old, new) ==
    IF Len(s) < Len(old) THEN s
    ELSE IF SubSeq(s, 1, Len(old)) = old
         THEN new \o replace(From(s, Len(old) + 1), old, new)
         ELSE Ch(s, 1) \o replace(From(s, 2), old, new)

\* the literal lit matches at position i; ci is flags=re.I
LitAt(s, i, lit, ci) ==
    /\ i >= 1
    /\ i + Len(lit) - 1 <= Len(s)
    /\ LET got == SubSeq(s, i, i + Len(lit) - 1)
       IN  IF ci THEN upper(got) = upper(lit) ELSE got = lit

IsWordAt(s, i) == i >= 1 /\ i <= Len(s) /\ Ch(s, i) \in WordChar

\* \b just before position i
Boundary(s, i) == IsWordAt(s, i - 1) # IsWordAt(s, i)

(***************************************************************************)
(* re.split: the pieces of s between the leftmost, non-overlapping matches *)
(* of a separator pattern.  SepLen gives the length of the pattern's match *)
(* starting at position i, 0 when it does not match there.                 *)
(***************************************************************************)
\* r'\s+\b<word>\b\s+' with flags=re.I
WordSepLen(s, i, word) ==
    LET k == Run(s, i, Whitespace)
        e == i + k + Len(word)
        k2 == Run(s, e, Whitespace)
    IN  IF /\ k >= 1
           /\ Boundary(s, i + k)
           /\ LitAt(s, i + k, word, TRUE)
           /\ Boundary(s, e)
           /\ k2 >= 1
        THEN k + Len(word) + k2
        ELSE 0

\* r'\s*,\s*|\s*;\s*'
CommaSepLen(s, i) ==
    LET k == Run(s, i, Whitespace)
    IN  IF i + k <= Len(s) /\ Ch(s, i + k) \in {",", ";"}
        THEN k + 1 + Run(s, i + k + 1, Whitespace)
        ELSE 0

SepLen(pat, s, i) ==
    IF pat = "," THEN CommaSepLen(s, i) ELSE WordSepLen(s, i, pat)

\* re.split(pattern, s): start is where the current piece began, i the scan position
RECURSIVE re_split_from(_, _, _, _)
re_split_from(pat, s, start, i) ==
    IF i > Len(s) THEN <<SubSeq(s, start, Len(s))>>
    ELSE LET n == SepLen(pat, s, i)
         IN  IF n > 0
             THEN <<SubSeq(s, start, i - 1)>> \o re_split_from(pat, s, i + n, i + n)
             ELSE re_split_from(pat, s, start, i + 1)

re_split(pat, s) == re_split_from(pat, s, 1, 1)

\* r'\bconsent of\b' with flags=re.I matches at position i
ConsentAt(s, i) ==
    /\ Boundary(s, i)
    /\ LitAt(s, i, "consent of", TRUE)
    /\ Boundary(s, i + Len("consent of"))

\* re.search(r'\bconsent of\b', s, flags=re.I)
search_consent(s) == \E i \in 1..Len(s) : ConsentAt(s, i)

\* re.split(r'\bconsent of\b', s, flags=re.I)[0]
split_consent_head(s) ==
    IF search_consent(s)
    THEN LET i == CHOOSE j \in 1..Len(s) :
                      ConsentAt(s, j) /\ \A k \in 1..(j - 1) : ~ConsentAt(s, k)
         IN  SubSeq(s, 1, i - 1)
    ELSE s

\* re.sub(r'^\s*one of\s*[:\-]?\s*', '', p, flags=re.I)
strip_one_of(p) ==
    LET k == Run(p, 1, Whitespace)
        j == k + 1 + Len("one of")
        j2 == j + Run(p, j, Whitespace)
        j3 == IF j2 <= Len(p) /\ Ch(p, j2) \in {":", "-"} THEN j2 + 1 ELSE j2
        j4 == j3 + Run(p, j3, Whitespace)
    IN  IF LitAt(p, k + 1, "one of", TRUE) THEN From(p, j4) ELSE p

(***************************************************************************)
(* The course-code pattern r'[A-Z]{2,5}\s*\d{2,4}[A-Z]?'.                  *)
(***************************************************************************)
MinLetters == 2
MaxLetters == 5
MinDigits == 2
MaxDigits == 4

\* length of the pattern's match starting at position i (0: no match there).
\* The letter count is tried greedily, from the longest run down.
CodeLenAt(s, i) ==
    LET L == Run(s, i, Upper)
        ok == {n \in MinLetters..MaxLetters :
                  /\ n <= L
                  /\ Run(s, i + n + Run(s, i + n, Whitespace), Digit) >= MinDigits}
    IN  IF ok = {} THEN 0
        ELSE LET n == CHOOSE m \in ok : \A o \in ok : o <= m
                 w == Run(s, i + n, Whitespace)
                 d == Min(Run(s, i + n + w, Digit), MaxDigits)
                 z == IF Run(s, i + n + w + d, Upper) >= 1 THEN 1 ELSE 0
             IN  n + w + d + z

\* re.search(pattern, s): the leftmost match's text in a one-element
\* sequence, <<>> when there is none
search_code(s) ==
    LET at == {i \in 1..Len(s) : CodeLenAt(s, i) > 0}
    IN  IF at = {} THEN <<>>
        ELSE LET i == CHOOSE j \in at : \A k \in at : j <= k
             IN  <<SubSeq(s, i, i + CodeLenAt(s, i) - 1)>>

\* re.match(r'^[A-Z]{2,5}\s*\d{2,4}[A-Z]?$', token)
match_code_exact(token) ==
    LET L == Run(token, 1, Upper)
        w == Run(token, L + 1, Whitespace)
        D == Run(token, L + w + 1, Digit)
        z == IF Run(token, L + w + D + 1, Upper) >= 1 THEN 1 ELSE 0
    IN  /\ L \in MinLetters..MaxLetters
        /\ D \in MinDigits..MaxDigits
        /\ L + w + D + z = Len(token)

\* re.sub(r'[^A-Z0-9 ]', '', s)
RECURSIVE keep_code_chars(_)
keep_code_chars(s) ==
    IF s = "" THEN ""
    ELSE (IF Ch(s, 1) \in Upper \cup Digit \cup {" "} THEN Ch(s, 1) ELSE "")
         \o keep_code_chars(From(s, 2))

(***************************************************************************)
(* The functions of eligibility_check.py.                                  *)
(***************************************************************************)
normalize_course_code(s) == upper(sub_ws(strip(s)))

split_top_level_and_groups(text) ==
    LET t0 == strip(text)
        t1 == split_consent_head(t0)
        t2 == replace(replace(t1, "one of:", "one of"), "one of", "one of")
        t3 == sub_ws(t2)
        parts == re_split("and", t3)
        kept == SelectSeq(parts, LAMBDA p : strip(p) # "")
    IN  [i \in 1..Len(kept) |-> strip_chars(kept[i], {" ", ".", ";"})]

\* the candidates one sub-token contributes: none or one
candidate_of(sub) ==
    LET s == strip(sub)
        m == search_code(upper(s))
        token == strip(keep_code_chars(upper(s)))
    IN  IF s = "" THEN <<>>
        ELSE IF m # <<>> THEN <<normalize_course_code(m[1])>>
        ELSE IF match_code_exact(token) THEN <<normalize_course_code(token)>>
        ELSE <<>>

RECURSIVE Flatten(_)
Flatten(ss) == IF ss = <<>> THEN <<>> ELSE Head(ss) \o Flatten(Tail(ss))

\* "Remove duplicates while preserving order"
RECURSIVE dedupe(_, _)
dedupe(cs, seen) ==
    IF cs = <<>> THEN <<>>
    ELSE IF Head(cs) \in seen THEN dedupe(Tail(cs), seen)
         ELSE <<Head(cs)>> \o dedupe(Tail(cs), seen \cup {Head(cs)})

extract_alternatives(piece) ==
    LET p == strip_one_of(piece)
        alt == re_split("or", p)
        subs == Flatten([i \in 1..Len(alt) |-> re_split(",", replace(alt[i], "/", ","))])
        candidates == Flatten([i \in 1..Len(subs) |-> candidate_of(subs[i])])
    IN  dedupe(candidates, {})

\* line.split(':', 1)
split_colon(line) ==
    LET i == CHOOSE j \in 1..Len(line) :
                 Ch(line, j) = ":" /\ \A k \in 1..(j - 1) : Ch(line, k) # ":"
    IN  [left |-> SubSeq(line, 1, i - 1), right |-> From(line, i + 1)]

\* the result is [course, reqs]; course is <<>> for None and <<code>> for a string
parse_prereq_line(line) ==
    IF ~Contains(line, ":") THEN [course |-> <<>>, reqs |-> <<>>]
    ELSE LET lr == split_colon(line)
             course == normalize_course_code(lr.left)
             req_text == strip(lr.right)
             parts == split_top_level_and_groups(req_text)
             alts == [i \in 1..Len(parts) |-> extract_alternatives(parts[i])]
         IN  IF search_consent(req_text) \/ strip(req_text) = ""
             THEN [course |-> <<course>>, reqs |-> <<>>]
             ELSE [course |-> <<course>>,
                   reqs |-> SelectSeq(alts, LAMBDA a : a # <<>>)]

(***************************************************************************)
(* The requirement store: course code -> sequence of requirement groups.   *)
(***************************************************************************)
Range(f) == {f[i] : i \in DOMAIN f}

\* dict.setdefault(course, [])
setdefault(parsed, course) ==
    IF course \in DOMAIN parsed THEN parsed
    ELSE [c \in DOMAIN parsed \cup {course} |->
             IF c = course THEN <<>> ELSE parsed[c]]

\* load_and_parse_line with a repeated course replacing its entry
load_and_parse_line_replace(parsed, raw, r) ==
    LET line == strip(raw)
        course == r.course[1]
    IN  IF line = "" THEN parsed
        ELSE IF ~Contains(line, ":") THEN parsed
        ELSE IF r.course = <<>> \/ course = "" THEN parsed
        ELSE [c \in DOMAIN parsed \cup {course} |->
                 IF c = course THEN r.reqs ELSE parsed[c]]

\* the body of load_and_parse's loop for one raw line of the file; r is
\* the result of parse_prereq_line(line)
load_and_parse_line(parsed, raw, r) ==
    LET line == strip(raw)
        course == r.course[1]
    IN  IF line = "" THEN parsed
        ELSE IF ~Contains(line, ":") THEN parsed
        ELSE IF r.course = <<>> \/ course = "" THEN parsed
        ELSE IF course \in DOMAIN parsed /\ r.reqs # <<>>
             THEN [parsed EXCEPT ![course] = @ \o r.reqs]
             ELSE [setdefault(parsed, course) EXCEPT ![course] = @ \o r.reqs]

(***************************************************************************)
(* build_graph                                                             *)
(***************************************************************************)
\* the course codes occurring in a course's requirement groups
PrereqsOf(req_groups) == UNION {Range(req_groups[i]) : i \in DOMAIN req_groups}

all_courses_of(parsed_reqs) ==
    DOMAIN parsed_reqs \cup UNION {PrereqsOf(parsed_reqs[c]) : c \in DOMAIN parsed_reqs}

\* build_adj that leaves the loop over the groups after the first group
build_adj_first_group(parsed_reqs) ==
    LET first(c) == IF parsed_reqs[c] = <<>> THEN {} ELSE Range(parsed_reqs[c][1])
        prereqs == UNION {first(c) : c \in DOMAIN parsed_reqs}
    IN  [p \in prereqs |-> {c \in DOMAIN parsed_reqs : p \in first(c)}]

\* adj: prerequisite -> set of the courses that list it; a defaultdict,
\* so its keys are the codes that occur as a prerequisite
build_adj(parsed_reqs) ==
    LET prereqs == UNION {PrereqsOf(parsed_reqs[c]) : c \in DOMAIN parsed_reqs}
    IN  [p \in prereqs |-> {c \in DOMAIN parsed_reqs : p \in PrereqsOf(parsed_reqs[c])}]

\* adj.get(u, [])
adj_get(a, u) == IF u \in DOMAIN a THEN a[u] ELSE {}

\* the number of course codes written in requirement groups, repetitions
\* counted
RECURSIVE Occurrences(_)
Occurrences(groups) ==
    IF groups = <<>> THEN 0 ELSE Len(Head(groups)) + Occurrences(Tail(groups))

\* build_indeg with adj holding lists: +1 per occurrence of a prerequisite
build_indeg_per_occurrence(parsed_reqs) ==
    [v \in all_courses_of(parsed_reqs) |->
        IF v \in DOMAIN parsed_reqs THEN Occurrences(parsed_reqs[v]) ELSE 0]

\* indeg: 0 for every node, then +1 per (u, v) with v in adj[u]
build_indeg(parsed_reqs) ==
    LET a == build_adj(parsed_reqs)
    IN  [v \in all_courses_of(parsed_reqs) |->
            Cardinality({u \in DOMAIN a : v \in a[u]})]

(***************************************************************************)
(* kahn_topological_sort                                                   *)
(***************************************************************************)
\* the orders in which a set (or a dict filled from a set) can be iterated
Perms(S) ==
    {f \in [1..Cardinality(S) -> S] : \A i, j \in 1..Cardinality(S) : f[i] = f[j] => i = j}

\* kahn_seed with the test d <= 1
kahn_seed_le_one(ind) == {n \in DOMAIN ind : ind[n] <= 1}

\* the nodes the deque is seeded with
kahn_seed(ind) == {n \in DOMAIN ind : ind[n] = 0}

\* kahn_visit without the test indeg_copy[v] == 0
RECURSIVE kahn_visit_enqueue_all(_, _)
kahn_visit_enqueue_all(st, vs) ==
    IF vs = <<>> THEN st
    ELSE LET v == Head(vs)
             ic == [st.indeg_copy EXCEPT ![v] = @ - 1]
         IN  kahn_visit_enqueue_all([indeg_copy |-> ic, q |-> Append(st.q, v)], Tail(vs))

\* "for v in adj.get(u, [])" over the neighbours in iteration order vs:
\* st is [indeg_copy, q]
RECURSIVE kahn_visit(_, _)
kahn_visit(st, vs) ==
    IF vs = <<>> THEN st
    ELSE LET v == Head(vs)
             ic == [st.indeg_copy EXCEPT ![v] = @ - 1]
             qq == IF ic[v] = 0 THEN Append(st.q, v) ELSE st.q
         IN  kahn_visit([indeg_copy |-> ic, q |-> qq], Tail(vs))

\* kahn_is_cycle with the comparison >
kahn_is_cycle_longer(ord, ind) == Len(ord) > Cardinality(DOMAIN ind)

kahn_is_cycle(ord, ind) == Len(ord) # Cardinality(DOMAIN ind)

(***************************************************************************)
(* Eligibility                                                             *)
(***************************************************************************)
\* is_requirement_satisfied with all() for any()
is_requirement_satisfied_all(group, done) ==
    \A i \in DOMAIN group : group[i] \in done

is_requirement_satisfied(group, done) ==
    \E i \in DOMAIN group : group[i] \in done

course_is_eligible(course, req_groups, done) ==
    IF req_groups = <<>> THEN TRUE
    ELSE \A i \in DOMAIN req_groups : is_requirement_satisfied(req_groups[i], done)

\* eligible_courses without the skip of completed courses
eligible_courses_keep_completed(parsed_reqs, completed_courses) ==
    {course \in DOMAIN parsed_reqs :
        course_is_eligible(course, parsed_reqs[course], completed_courses)}

eligible_courses(parsed_reqs, completed_courses) ==
    {course \in DOMAIN parsed_reqs :
        /\ course \notin completed_courses
        /\ course_is_eligible(course, parsed_reqs[course], completed_courses)}

\* set(normalize_course_code(x) for x in args.completed.split(',') if x.strip())
completed_of(args) == {normalize_course_code(x) : x \in {y \in args : strip(y) # ""}}

(***************************************************************************)
(* Inputs                                                                  *)
(***************************************************************************)
\* the longest file read
MaxLines == 3

ExampleLine == "BIOCH 310 : BIOCH 200, CHEM 102 (or SCI 100) and CHEM 263"

\* the raw lines a file is made of
LinePool ==
    { ExampleLine,
      "BIOCH 200 : CHEM 102",
      "CHEM 263 : BIOCH 200",
      "CHEM 102 : BIOCH 200",
      "CHEM 102 : BIOCH 200 or consent of instructor",
      "SCI 100 : sci 100",
      "BIOCH 200 : CHEM 102 or SCI 100",
      "chem  263: CHEM 102 or SCI 100 and 90 units and chem 102/BIOCH 200.",
      "SCI 100 : Consent of Instructor",
      " : CHEM 102",
      "no separator here",
      "  \n" }

\* the entries of --completed
CompletedPool == {"CHEM 102", " bioch  200", "sci 100", " "}

\* parse_prereq_line(raw.strip()) of every line of the pool, evaluated once
ParseTable == [raw \in LinePool |-> parse_prereq_line(strip(raw))]

\* completed_of of every --completed argument, evaluated once
CompletedTable == [args \in SUBSET CompletedPool |-> completed_of(args)]

(***************************************************************************)
(* The run of __main__: load_and_parse, the summary, build_graph,          *)
(* kahn_topological_sort, eligible_courses.                                *)
(***************************************************************************)
VARIABLES
    pc,          \* where the run is
    lines,       \* the raw lines of the file read so far
    parsed,      \* the requirement store
    summary,     \* the count of the "Parsed N courses" line
    adj,         \* prerequisite -> dependants
    indeg,       \* node -> indegree
    q,           \* the deque of kahn_topological_sort
    order,       \* its result so far
    indeg_copy,  \* its working copy of indeg
    is_cycle,    \* its cycle flag
    completed,   \* the completed set of the query
    eligible     \* the result of eligible_courses

vars == <<pc, lines, parsed, summary, adj, indeg, q, order, indeg_copy,
          is_cycle, completed, eligible>>

Init ==
    /\ pc = "load"
    /\ lines = <<>>
    /\ parsed = <<>>
    /\ summary = 0
    /\ adj = <<>>
    /\ indeg = <<>>
    /\ q = <<>>
    /\ order = <<>>
    /\ indeg_copy = <<>>
    /\ is_cycle = FALSE
    /\ completed = {}
    /\ eligible = {}

\* load_and_parse: one iteration of "for raw in f"
ReadLine ==
    /\ pc = "load"
    /\ Len(lines) < MaxLines
    /\ \E raw \in LinePool :
          /\ lines' = Append(lines, raw)
          /\ parsed' = load_and_parse_line(parsed, raw, ParseTable[raw])
    /\ UNCHANGED <<pc, summary, adj, indeg, q, order, indeg_copy, is_cycle,
                   completed, eligible>>

\* the file ends, load_and_parse returns and the summary line is printed
PrintSummary ==
    /\ pc = "load"
    /\ summary' = Cardinality(DOMAIN parsed)
    /\ pc' = "graph"
    /\ UNCHANGED <<lines, parsed, adj, indeg, q, order, indeg_copy, is_cycle,
                   completed, eligible>>

BuildGraph ==
    /\ pc = "graph"
    /\ adj' = build_adj(parsed)
    /\ indeg' = build_indeg(parsed)
    /\ pc' = "sort"
    /\ UNCHANGED <<lines, parsed, summary, q, order, indeg_copy, is_cycle,
                   completed, eligible>>

\* kahn_topological_sort up to its loop: the deque is seeded in the
\* iteration order of indeg, which was filled from a set
KahnStart ==
    /\ pc = "sort"
    /\ \E seed \in Perms(kahn_seed(indeg)) : q' = seed
    /\ order' = <<>>
    /\ indeg_copy' = indeg
    /\ pc' = "loop"
    /\ UNCHANGED <<lines, parsed, summary, adj, indeg, is_cycle, completed, eligible>>

\* one iteration of "while q"
KahnStep ==
    /\ pc = "loop"
    /\ q # <<>>
    /\ LET u == Head(q)
       IN  /\ order' = Append(order, u)
           /\ \E vs \in Perms(adj_get(adj, u)) :
                 LET st == kahn_visit([indeg_copy |-> indeg_copy, q |-> Tail(q)], vs)
                 IN  /\ q' = st.q
                     /\ indeg_copy' = st.indeg_copy
    /\ UNCHANGED <<pc, lines, parsed, summary, adj, indeg, is_cycle, completed, eligible>>

\* the deque is empty: kahn_topological_sort returns (order, is_cycle)
KahnReturn ==
    /\ pc = "loop"
    /\ q = <<>>
    /\ is_cycle' = kahn_is_cycle(order, indeg)
    /\ pc' = "query"
    /\ UNCHANGED <<lines, parsed, summary, adj, indeg, q, order, indeg_copy,
                   completed, eligible>>

\* the eligibility query for the --completed argument
EligibleCourses ==
    /\ pc = "query"
    /\ \E args \in SUBSET CompletedPool :
          /\ completed' = CompletedTable[args]
          /\ eligible' = eligible_courses(parsed, CompletedTable[args])
    /\ pc' = "done"
    /\ UNCHANGED <<lines, parsed, summary, adj, indeg, q, order, indeg_copy, is_cycle>>

Next ==
    \/ ReadLine
    \/ PrintSummary
    \/ BuildGraph
    \/ KahnStart
    \/ KahnStep
    \/ KahnReturn
    \/ EligibleCourses

Spec == Init /\ [][Next]_vars

(***************************************************************************)
(* Vocabulary of the properties.                                           *)
(***************************************************************************)
Nodes == DOMAIN indeg

\* the nodes reachable from the set S along edges prerequisite -> course
RECURSIVE Closure(_)
Closure(S) ==
    LET T == S \cup UNION {adj_get(adj, u) : u \in S}
    IN  IF T = S THEN S ELSE Closure(T)

\* n lies on a directed cycle
OnCycle(n) == n \in Closure(adj_get(adj, n))

Acyclic == \A n \in Nodes : ~OnCycle(n)

Sorted == pc \in {"query", "done"}

NoRepeat(sq) == \A i, j \in 1..Len(sq) : sq[i] = sq[j] => i = j

Pos(n) == CHOOSE i \in 1..Len(order) : order[i] = n

\* B requires A and C requires B
ChainStore ==
    ("BIOCH 200" :> <<<<"CHEM 102">>>>) @@ ("CHEM 263" :> <<<<"BIOCH 200">>>>)

\* A requires B and B requires A
TwoCycleStore ==
    ("BIOCH 200" :> <<<<"CHEM 102">>>>) @@ ("CHEM 102" :> <<<<"BIOCH 200">>>>)

\* C1: when the graph of build_graph has no directed cycle, the sequence
\* kahn_topological_sort returns holds every node exactly once and every
\* prerequisite strictly before each course that lists it; for the chain
\* B requires A, C requires B it is exactly A, B, C.
C1_TopologicalOrder ==
    (Sorted /\ Acyclic) =>
        /\ Range(order) = Nodes
        /\ NoRepeat(order)
        /\ \A u \in DOMAIN adj : \A v \in adj[u] : Pos(u) < Pos(v)
        /\ (parsed = ChainStore => order = <<"CHEM 102", "BIOCH 200", "CHEM 263">>)

C1_Witness ==
    /\ Sorted
    /\ Acyclic
    /\ parsed = ChainStore
    /\ order = <<"CHEM 102", "BIOCH 200", "CHEM 263">>

\* C2: the cycle flag is true exactly when the returned sequence is
\* strictly shorter than the number of nodes of the indegree map; the
\* sequence is never longer than that and holds no node twice.
C2_CycleFlag ==
    /\ (pc \in {"loop", "query", "done"} =>
           /\ Len(order) <= Cardinality(Nodes)
           /\ NoRepeat(order))
    /\ (Sorted => (is_cycle <=> Len(order) < Cardinality(Nodes)))

C2_Witness ==
    /\ Sorted
    /\ is_cycle
    /\ order # <<>>
    /\ Len(order) < Cardinality(Nodes)

\* C3: when the graph has a directed cycle (a self-prerequisite included)
\* the partial sequence is returned with the flag true and no node on a
\* cycle is in it; for the two-node cycle the sequence is empty.
C3_CycleNodesLeftOut ==
    Sorted =>
        /\ (~Acyclic => is_cycle)
        /\ \A n \in Nodes : OnCycle(n) => n \notin Range(order)
        /\ (parsed = TwoCycleStore => order = <<>> /\ is_cycle)

\* a self-prerequisite, a node that is left out without being on a cycle,
\* and a non-empty partial sequence
C3_Witness ==
    /\ Sorted
    /\ is_cycle
    /\ order # <<>>
    /\ \E n \in Nodes : n \in adj_get(adj, n)
    /\ \E n \in Nodes : ~OnCycle(n) /\ n \notin Range(order)

C3_WitnessTwoCycle == Sorted /\ parsed = TwoCycleStore /\ order = <<>>

\* the course codes a completed set can hold
CompletedCodes == UNION Range(CompletedTable)

\* C4: eligible_courses returns exactly the store keys that are not
\* completed and whose every requirement group has a completed member; a
\* completed course and a code that is only a prerequisite are never
\* returned.
C4_EligibleExactly ==
    pc = "done" =>
        /\ eligible =
              {c \in DOMAIN parsed :
                  /\ c \notin completed
                  /\ \A i \in 1..Len(parsed[c]) : Range(parsed[c][i]) \cap completed # {}}
        /\ eligible \cap completed = {}
        /\ eligible \cap (Nodes \ DOMAIN parsed) = {}

\* a completed key whose requirements are met is left out, a key without
\* requirements and a key with met requirements are returned, and a code
\* that is only a prerequisite is not
C4_Witness ==
    /\ pc = "done"
    /\ \E c \in DOMAIN parsed \cap completed : course_is_eligible(c, parsed[c], completed)
    /\ \E c \in eligible : parsed[c] # <<>>
    /\ \E c \in DOMAIN parsed \ eligible : c \notin completed
    /\ Nodes \ (DOMAIN parsed \cup completed) # {}

\* C5: course_is_eligible is monotonic in the completed set: a course
\* eligible with the completed set stays eligible with every superset; a
\* course requiring [["CHEM 102","SCI 100"]] is not eligible with {} and is
\* eligible with {"CHEM 102"}.
C5_Monotonic ==
    pc = "done" =>
        \A c \in DOMAIN parsed :
            /\ course_is_eligible(c, parsed[c], completed) =>
                  \A more \in SUBSET (CompletedCodes \ completed) :
                      course_is_eligible(c, parsed[c], completed \cup more)
            /\ parsed[c] = <<<<"CHEM 102", "SCI 100">>>> =>
                  /\ ~course_is_eligible(c, parsed[c], {})
                  /\ course_is_eligible(c, parsed[c], {"CHEM 102"})
                  /\ (completed = {} => c \notin eligible)
                  /\ (completed = {"CHEM 102"} => c \in eligible)

C5_Witness ==
    /\ pc = "done"
    /\ completed = {"CHEM 102"}
    /\ \E c \in eligible : parsed[c] = <<<<"CHEM 102", "SCI 100">>>>
    /\ \E c \in DOMAIN parsed : ~course_is_eligible(c, parsed[c], completed)

\* the course code a raw line is for: <<code>>, or <<>> when the line is
\* blank, has no separator or has an empty code
LineCourse(raw) ==
    IF strip(raw) = "" \/ ~Contains(raw, ":") \/ ParseTable[raw].course = <<"">>
    THEN <<>>
    ELSE ParseTable[raw].course

\* the requirement groups of the lines read so far that are for course c,
\* in line order
GroupsInLineOrder(c) ==
    Flatten([i \in 1..Len(lines) |->
                IF LineCourse(lines[i]) = <<c>> THEN ParseTable[lines[i]].reqs ELSE <<>>])

\* C6: after any sequence of lines the store entry of each course code is
\* the concatenation, in line order, of the groups parsed from every line
\* with that code: later lines append, and a line without groups changes
\* nothing.
C6_StoreIsConcatenation ==
    /\ DOMAIN parsed = {LineCourse(lines[i])[1] :
                            i \in {j \in 1..Len(lines) : LineCourse(lines[j]) # <<>>}}
    /\ \A c \in DOMAIN parsed : parsed[c] = GroupsInLineOrder(c)

\* three lines for one course: groups, no groups, groups again
C6_Witness ==
    /\ Len(lines) = 3
    /\ \E c \in DOMAIN parsed :
          /\ \A i \in 1..3 : LineCourse(lines[i]) = <<c>>
          /\ ParseTable[lines[1]].reqs # <<>>
          /\ ParseTable[lines[2]].reqs = <<>>
          /\ ParseTable[lines[3]].reqs # <<>>
          /\ parsed[c] = ParseTable[lines[1]].reqs \o ParseTable[lines[3]].reqs

\* the distinct course codes in the requirement groups of store key n
DistinctPrereqs(n) ==
    UNION {{parsed[n][i][j] : j \in 1..Len(parsed[n][i])} : i \in 1..Len(parsed[n])}

\* C7: the keys of the indegree map are the store keys together with every
\* code in any requirement group, and the indegree of a node is the number
\* of distinct codes in its own requirement groups: 0 for a node that is
\* not a store key or has no requirement.
C7_IndegreeCountsDistinct ==
    pc \in {"sort", "loop", "query", "done"} =>
        /\ Nodes = DOMAIN parsed \cup UNION {DistinctPrereqs(c) : c \in DOMAIN parsed}
        /\ \A n \in Nodes :
              indeg[n] = IF n \in DOMAIN parsed
                         THEN Cardinality(DistinctPrereqs(n))
                         ELSE 0

\* a code repeated over two groups counts once; a prerequisite-only node
\* and a key without requirements have indegree 0
C7_Witness ==
    /\ pc = "sort"
    /\ \E n \in DOMAIN parsed :
          /\ Len(parsed[n]) >= 2
          /\ indeg[n] >= 2
          /\ indeg[n] < Occurrences(parsed[n])
    /\ \E n \in Nodes \ DOMAIN parsed : indeg[n] = 0
    /\ \E n \in DOMAIN parsed : parsed[n] = <<>> /\ indeg[n] = 0

\* the requirement text of a raw line cut where "consent of" begins
TruncatedLine(raw) ==
    IF Contains(raw, ":")
    THEN LET lr == split_colon(raw)
         IN  lr.left \o ":" \o split_consent_head(lr.right)
    ELSE raw

\* the groups of every line of the pool when its requirement text is cut at
\* "consent of" and what is before it is parsed, evaluated once
TruncatedTable == [raw \in LinePool |-> parse_prereq_line(strip(TruncatedLine(raw))).reqs]

\* C8: a requirement text with "consent of" loses only the text from the
\* phrase on; the codes before it are kept as groups, so the store holds,
\* for each course, the groups of its lines parsed up to the phrase
\* ("CHEM 102 : BIOCH 200 or consent of instructor" gives [["BIOCH 200"]]).
C8_ConsentTruncated ==
    \A c \in DOMAIN parsed :
        parsed[c] =
            Flatten([i \in 1..Len(lines) |->
                        IF LineCourse(lines[i]) = <<c>> THEN TruncatedTable[lines[i]] ELSE <<>>])

\* C9: the requirement text of ExampleLine parses to the three groups
\* [["BIOCH 200"], ["CHEM 102","SCI 100"], ["CHEM 263"]], in that order.
C9_ExampleGroups ==
    lines = <<ExampleLine>> =>
        parsed["BIOCH 310"] =
            << <<"BIOCH 200">>, <<"CHEM 102", "SCI 100">>, <<"CHEM 263">> >>

\* C10: the count of the summary line is the number of courses of the store
\* that have at least one requirement group.
C10_SummaryCount ==
    pc \in {"graph", "sort", "loop", "query", "done"} =>
        summary = Cardinality({c \in DOMAIN parsed : parsed[c] # <<>>})

\* the nodes at the positions before i of the returned sequence
Before(i) == {order[j] : j \in 1..(i - 1)}

\* C11: when the graph is acyclic, every store key of the returned sequence
\* is eligible (course_is_eligible) with the nodes before it as the
\* completed set: a student who takes the courses in the returned order is
\* eligible for each one on reaching it.
C11_OrderIsTakeable ==
    (Sorted /\ Acyclic) =>
        \A i \in 1..Len(order) :
            order[i] \in DOMAIN parsed =>
                course_is_eligible(order[i], parsed[order[i]], Before(i))

\* a key with two groups, one of them with alternatives, that is eligible
\* where it stands and was not one place earlier
C11_Witness ==
    /\ Sorted
    /\ Acyclic
    /\ \E i \in 3..Len(order) :
          /\ order[i] \in DOMAIN parsed
          /\ Len(parsed[order[i]]) >= 2
          /\ \E g \in 1..Len(parsed[order[i]]) : Len(parsed[order[i]][g]) >= 2
          /\ course_is_eligible(order[i], parsed[order[i]], Before(i))
          /\ ~course_is_eligible(order[i], parsed[order[i]], Before(i - 1))

====
